---- MODULE Spec2Model ----
(***************************************************************************)
(* LexUse, src/util.py: the sampling loop of process_lexeme_data, the      *)
(* exclusion file exclude_list.json (in_exclude_list,                      *)
(* save_to_exclude_list), and the curation of candidate sentences          *)
(* (process_result, present_sentence, prompt_sense_approval,               *)
(* add_usage_example, add_to_watchlist).                                   *)
(*                                                                         *)
(* Spec      the script as written: process_result takes its candidates    *)
(*           from get_sentences_from_apis.                                 *)
(* SpecCurate process_result from line 508 on, for every value that        *)
(*           sentences_and_result_data can hold when the mapping of        *)
(*           riksdagen.get_records is handed on to it.                     *)
(***************************************************************************)
EXTENDS Integers, Sequences, FiniteSets, TLC

\* ------------------------------------------------------------------ bounds
MaxRows == 2        \* config.sparql_results_size ranges over 1..MaxRows
MaxRuns == 2        \* runs of the script against the same exclude_list.json
MaxSentences == 2   \* candidates in one mapping of the corpus collaborator
MaxSenses == 2      \* senses returned by one fetch_senses
MaxCalls == 3       \* calls of the two store operations in a row

\* --------------------------------------------------------------- constants
wd_prefix == "http://www.wikidata.org/entity/"

\* An entity URI is the sequence <<prefix, id>>; .replace(wd_prefix, "")
\* removes every occurrence of the prefix.
Replace(value, old) == SelectSeq(value, LAMBDA t : t # old)

LanguageCodes == {"sv", "da"}

\* Rows of the query of fetch_lexeme_forms (SELECT DISTINCT ?l ?form ?word
\* ?catLabel): a form id is the lexeme id followed by -F<n>; one form may
\* come with two representations, hence in two rows.
Rows ==
  { [l |-> <<wd_prefix, "L1">>, form |-> <<wd_prefix, "L1-F1">>, word |-> "w1", catLabel |-> "noun"],
    [l |-> <<wd_prefix, "L1">>, form |-> <<wd_prefix, "L1-F1">>, word |-> "w2", catLabel |-> "noun"],
    [l |-> <<wd_prefix, "L2">>, form |-> <<wd_prefix, "L2-F1">>, word |-> "w1", catLabel |-> "noun"] }

InSeq(x, s) == \E i \in 1..Len(s) : s[i] = x
NoDup(s) == \A i, j \in 1..Len(s) : s[i] = s[j] => i = j
SeqsUpTo(S, n) == UNION { [1..k -> S] : k \in 0..n }

\* The result sets sparql_query returns to process_lexeme_data: never empty
\* (sparql_query exits on an empty result), distinct rows, at most
\* config.sparql_results_size of them (the query's LIMIT).
fetch_lexeme_forms(size) ==
  { r \in SeqsUpTo(Rows, size) : Len(r) >= 1 /\ NoDup(r) }

extract_data(result) ==
  [ lid      |-> Replace(result.l, wd_prefix),
    form_id  |-> Replace(result.form, wd_prefix),
    word     |-> result.word,
    category |-> result.catLabel ]

\* ------------------------------------------------------ exclude_list.json
EmptyDict == [k \in {} |-> 0]
Absent == [kind |-> "absent", data |-> EmptyDict]
EmptyFile == [kind |-> "empty", data |-> EmptyDict]
Corrupt == [kind |-> "corrupt", data |-> EmptyDict]
Json(d) == [kind |-> "json", data |-> d]

\* The file a first run can find: none, one with no content, one whose
\* content is not JSON, or the JSON object {}.
InitialFiles == {Absent, EmptyFile, Corrupt, Json(EmptyDict)}

Stored(f, form_id, lang) ==
  /\ f.kind = "json"
  /\ form_id \in DOMAIN f.data
  /\ f.data[form_id].lang = lang

\* a lookup that takes a file without content for an empty list
in_exclude_list_empty_is_false(f, data, language_code) ==
  IF f.kind \in {"absent", "empty"} THEN "False"
  ELSE IF f.kind = "corrupt" THEN "raise"
  ELSE IF \E form_id \in DOMAIN f.data :
             /\ data.lid = form_id
             /\ language_code = f.data[form_id].lang
       THEN "True"
       ELSE "False"

\* in_exclude_list: "True", "False", or "raise" when json.loads fails on
\* the content read.
in_exclude_list(f, data, language_code) ==
  IF f.kind = "absent" THEN "False"
  ELSE IF f.kind \in {"empty", "corrupt"} THEN "raise"
  ELSE IF \E form_id \in DOMAIN f.data :
             /\ data.lid = form_id
             /\ language_code = f.data[form_id].lang
       THEN "True"
       ELSE "False"

\* a save that keeps the record a form already has
save_to_exclude_list_keep(f, data, language_code, now) ==
  LET form_data == [word |-> data.word, date |-> now, lang |-> language_code]
      put(d) == [k \in DOMAIN d \cup {data.form_id} |->
                   IF k \in DOMAIN d THEN d[k] ELSE form_data]
  IN  IF f.kind = "absent" THEN [file |-> Json(put(EmptyDict)), outcome |-> "ok"]
      ELSE IF f.kind = "empty" THEN [file |-> f, outcome |-> "exit1"]
      ELSE IF f.kind = "corrupt"
           THEN [file |-> EmptyFile, outcome |-> "raise"]
      ELSE [file |-> Json(put(f.data)), outcome |-> "ok"]

\* a save that writes a new object holding the one record
save_to_exclude_list_fresh(f, data, language_code, now) ==
  LET form_data == [word |-> data.word, date |-> now, lang |-> language_code]
      put(d) == [k \in DOMAIN d \cup {data.form_id} |->
                   IF k = data.form_id THEN form_data ELSE d[k]]
  IN  IF f.kind = "absent" THEN [file |-> Json(put(EmptyDict)), outcome |-> "ok"]
      ELSE IF f.kind = "empty" THEN [file |-> f, outcome |-> "exit1"]
      ELSE IF f.kind = "corrupt"
           THEN [file |-> EmptyFile, outcome |-> "raise"]
      ELSE [file |-> Json(put(EmptyDict)), outcome |-> "ok"]

\* save_to_exclude_list: the file afterwards and how the call ended.
save_to_exclude_list(f, data, language_code, now) ==
  LET form_data == [word |-> data.word, date |-> now, lang |-> language_code]
      put(d) == [k \in DOMAIN d \cup {data.form_id} |->
                   IF k = data.form_id THEN form_data ELSE d[k]]
  IN  IF f.kind = "absent" THEN [file |-> Json(put(EmptyDict)), outcome |-> "ok"]
      ELSE IF f.kind = "empty" THEN [file |-> f, outcome |-> "exit1"]
      ELSE IF f.kind = "corrupt"
           \* opened with 'w' before json.loads raises
           THEN [file |-> EmptyFile, outcome |-> "raise"]
      ELSE [file |-> Json(put(f.data)), outcome |-> "ok"]

\* ------------------------------------------------------------ candidates
\* One word of five characters, two words of three characters, one word
\* of three characters.
S1 == <<"a", "a", "a", "a", "a">>
S2 == <<"a", " ", "a">>
S3 == <<"b", "b", "b">>
SentenceTexts == {S1, S2, S3}
PublicationDates == {"None", "2020-01-01"}

Items == [sentence : SentenceTexts, document_id : {"GZ01"}, date : PublicationDates]

\* What riksdagen.get_records returns: None, or a mapping sentence ->
\* {document_id, date}, kept in the order of insertion, one entry per text.
get_records ==
  { [none |-> TRUE, items |-> <<>>] } \cup
  { [none |-> FALSE, items |-> s] :
      s \in { t \in SeqsUpTo(Items, MaxSentences) :
                \A i, j \in 1..Len(t) : t[i].sentence = t[j].sentence => i = j } }

\* get_sentences_from_apis calls riksdagen.get_records and returns nothing.
get_sentences_from_apis(records) == [none |-> TRUE, items |-> <<>>]

\* str.strip(): white space at both ends removed.
RECURSIVE lstrip(_)
lstrip(string) ==
  IF Len(string) > 0 /\ string[1] = " " THEN lstrip(Tail(string)) ELSE string

RECURSIVE rstrip(_)
rstrip(string) ==
  IF Len(string) > 0 /\ string[Len(string)] = " "
  THEN rstrip(SubSeq(string, 1, Len(string) - 1)) ELSE string

strip(string) == rstrip(lstrip(string))

\* str.split(" "): the pieces between single spaces, empty ones included.
RECURSIVE split(_)
split(string) ==
  IF \A i \in 1..Len(string) : string[i] # " " THEN <<string>>
  ELSE LET i == CHOOSE k \in 1..Len(string) :
                  string[k] = " " /\ \A m \in 1..(k - 1) : string[m] # " "
       IN  <<SubSeq(string, 1, i - 1)>> \o split(SubSeq(string, i + 1, Len(string)))

count_words(string) == Len(split(strip(string)))

\* a sort key that counts the words
len_words(sentence) == count_words(sentence)

len(sentence) == Len(sentence)

\* sorted(mapping, key=len): stable, ascending.
RECURSIVE sorted(_)
sorted(s) ==
  IF Len(s) = 0 THEN <<>>
  ELSE LET rest == sorted(SubSeq(s, 1, Len(s) - 1))
           x == s[Len(s)]
           p == Cardinality({ i \in 1..Len(rest) : len(rest[i].sentence) <= len(x.sentence) })
       IN  SubSeq(rest, 1, p) \o <<x>> \o SubSeq(rest, p + 1, Len(rest))


\* ---------------------------------------------------------------- prompts
\* What the operator finally types at a prompt that loops until it
\* recognises the answer.
SkipAnswers == {"", "y", "n", "s"}
YesNoAnswers == {"", "y", "n"}

yes_no_skip_question(answer) ==
  IF answer = "" THEN "True"
  ELSE IF answer = "s" THEN "None"
  ELSE IF answer = "y" THEN "True" ELSE "False"

yes_no_question(answer) ==
  IF answer = "" THEN TRUE ELSE answer = "y"

\* ------------------------------------------------------- sense resolution
NoSense == [match |-> FALSE, sense_id |-> <<>>, sense_gloss |-> <<>>]

\* The bindings the query service returns for the senses of lid.
SenseRows(lid, n) ==
  [k \in 1..n |-> [sense |-> <<wd_prefix>> \o lid \o <<"-S", ToString(k)>>,
                   gloss |-> <<"gloss", ToString(k)>>]]

\* sparql_query: exit(0) on an empty result, else the bindings.
sparql_query(bindings) ==
  IF Len(bindings) = 0 THEN [exit |-> TRUE, results |-> <<>>]
  ELSE [exit |-> FALSE, results |-> bindings]

fetch_senses(result) ==
  [number \in 1..Len(result) |->
     [sense_id |-> Replace(result[number].sense, wd_prefix),
      gloss    |-> result[number].gloss]]

\* Inputs typed at the sense menu: text that int() rejects, then a number.
Numeric(v) == [num |-> TRUE, val |-> v]
NonNumeric == [num |-> FALSE, val |-> 0]
MenuInputs ==
  { <<Numeric(v)>> : v \in -1..(MaxSenses + 1) } \cup
  { <<NonNumeric, Numeric(v)>> : v \in -1..(MaxSenses + 1) }

\* a menu that counts the senses from zero
prompt_choose_sense_from_zero(senses, inputs) ==
  LET first == CHOOSE i \in 1..Len(inputs) :
                 inputs[i].num /\ \A j \in 1..(i - 1) : ~inputs[j].num
      choice == inputs[first].val
  IN  IF choice >= 0 /\ choice < Len(senses)
      THEN [match |-> TRUE, sense_id |-> senses[choice + 1].sense_id,
            sense_gloss |-> senses[choice + 1].gloss]
      ELSE NoSense

RECURSIVE prompt_choose_sense(_, _)
prompt_choose_sense(senses, inputs) ==
  IF ~inputs[1].num THEN prompt_choose_sense(senses, Tail(inputs))
  ELSE LET choice == inputs[1].val IN
       IF choice > 0 /\ choice <= Len(senses)
       THEN [match |-> TRUE, sense_id |-> senses[choice].sense_id,
             sense_gloss |-> senses[choice].gloss]
       ELSE NoSense

\* an approval that takes the single sense whatever the operator answers
prompt_sense_approval_any_answer(data, n, yn, inputs) ==
  LET q == sparql_query(SenseRows(data.lid, n)) IN
  IF q.exit THEN [exit |-> TRUE, sense |-> NoSense]
  ELSE LET senses == fetch_senses(q.results) IN
       IF Len(senses) = 1
       THEN [exit |-> FALSE,
             sense |-> [match |-> TRUE, sense_id |-> senses[1].sense_id,
                        sense_gloss |-> senses[1].gloss]]
       ELSE [exit |-> FALSE, sense |-> prompt_choose_sense(senses, inputs)]

\* an approval that hands on the first sense of the menu for any choice
prompt_sense_approval_first_sense(data, n, yn, inputs) ==
  LET q == sparql_query(SenseRows(data.lid, n)) IN
  IF q.exit THEN [exit |-> TRUE, sense |-> NoSense]
  ELSE LET senses == fetch_senses(q.results) IN
       IF Len(senses) = 1
       THEN IF yes_no_question(yn)
            THEN [exit |-> FALSE,
                  sense |-> [match |-> TRUE, sense_id |-> senses[1].sense_id,
                             sense_gloss |-> senses[1].gloss]]
            ELSE [exit |-> FALSE, sense |-> NoSense]
       ELSE IF prompt_choose_sense(senses, inputs).match
            THEN [exit |-> FALSE,
                  sense |-> [match |-> TRUE, sense_id |-> senses[1].sense_id,
                             sense_gloss |-> senses[1].gloss]]
            ELSE [exit |-> FALSE, sense |-> NoSense]

\* prompt_sense_approval: exit is TRUE when sparql_query ended the process.
prompt_sense_approval(data, n, yn, inputs) ==
  LET q == sparql_query(SenseRows(data.lid, n)) IN
  IF q.exit THEN [exit |-> TRUE, sense |-> NoSense]
  ELSE LET senses == fetch_senses(q.results)
           number_of_senses == Len(senses)
       IN  IF number_of_senses > 0
           THEN IF number_of_senses = 1
                THEN IF yes_no_question(yn)
                     THEN [exit |-> FALSE,
                           sense |-> [match |-> TRUE, sense_id |-> senses[1].sense_id,
                                      sense_gloss |-> senses[1].gloss]]
                     ELSE [exit |-> FALSE, sense |-> NoSense]
                ELSE [exit |-> FALSE, sense |-> prompt_choose_sense(senses, inputs)]
           \* the diagnostic for no senses, then False
           ELSE [exit |-> FALSE, sense |-> NoSense]

\* ------------------------------------------------------------ submission
\* a submission that creates the session before it looks at the date
add_usage_example_login_first(publication_date, login_instance, write) ==
  IF publication_date = "None"
  THEN [result |-> FALSE, login_instance |-> TRUE,
        logged_in |-> ~login_instance, wrote |-> FALSE]
  ELSE [result |-> write, login_instance |-> TRUE,
        logged_in |-> ~login_instance, wrote |-> TRUE]

\* a submission that creates a session for every write
add_usage_example_login_always(publication_date, login_instance, write) ==
  IF publication_date = "None"
  THEN [result |-> FALSE, login_instance |-> login_instance,
        logged_in |-> FALSE, wrote |-> FALSE]
  ELSE [result |-> write, login_instance |-> TRUE,
        logged_in |-> TRUE, wrote |-> TRUE]

\* add_usage_example: no login and no write without a publication date;
\* else the session is created when there is none and item.write answers.
add_usage_example(publication_date, login_instance, write) ==
  IF publication_date = "None"
  THEN [result |-> FALSE, login_instance |-> login_instance,
        logged_in |-> FALSE, wrote |-> FALSE]
  ELSE [result |-> write, login_instance |-> TRUE,
        logged_in |-> ~login_instance, wrote |-> TRUE]

\* add_to_watchlist has no handler: a failing token fetch or watch call
\* leaves it as an exception.
WatchOutcomes == {"ok", "raise"}
add_to_watchlist(watch) == watch

\* a failed submission that ends present_sentence without a value
after_add_usage_example_none(result, watch) ==
  IF result
  THEN IF watch = "ok" THEN "True" ELSE "raise"
  ELSE "None"

\* present_sentence after add_usage_example returned: success is followed
\* by add_to_watchlist and True, failure by False.
after_add_usage_example(result, watch) ==
  IF result
  THEN IF add_to_watchlist(watch) = "ok" THEN "True" ELSE "raise"
  ELSE "False"

\* present_sentence: ret is "True", "False", "None", "exit0" (sparql_query
\* ended the process) or "raise" (exception of add_to_watchlist).
present_sentence(data, item, answer, n, yn, inputs, write, watch, login_instance) ==
  LET result == yes_no_skip_question(answer)
      none == [ret |-> "None", resolved |-> FALSE, sense |-> NoSense, called |-> FALSE,
               result |-> FALSE, login_instance |-> login_instance,
               logged_in |-> FALSE, wrote |-> FALSE, watched |-> FALSE]
  IN  IF result = "True"
      THEN LET a == prompt_sense_approval(data, n, yn, inputs) IN
           IF a.exit THEN [none EXCEPT !.ret = "exit0"]
           ELSE IF a.sense.match
           THEN LET u == add_usage_example(item.date, login_instance, write)
                    r == [none EXCEPT !.resolved = TRUE, !.sense = a.sense,
                                      !.called = TRUE, !.result = u.result,
                                      !.login_instance = u.login_instance,
                                      !.logged_in = u.logged_in, !.wrote = u.wrote]
                IN  [r EXCEPT !.ret = after_add_usage_example(u.result, watch),
                              !.watched = u.result]
           \* no branch for a sense that is False: the function ends
           ELSE [none EXCEPT !.resolved = TRUE]
      ELSE IF result = "None" THEN none
      ELSE [none EXCEPT !.ret = "False"]


\* ------------------------------------------------------------------ state
VARIABLES
  run,                  \* number of the run of the script
  status,               \* "running", "exit0", "exit1" or "exception"
  pc,                   \* "sampling", "process_result" or "present"
  results,              \* the rows handed to process_lexeme_data
  sparql_results_size,  \* config.sparql_results_size
  language_code,        \* config.language_code
  login_instance,       \* config.login_instance is not None
  file,                 \* exclude_list.json
  clock,                \* datetime.now(), later at every call
  earlier_choices,      \* process_lexeme_data
  cur,                  \* <<result>> of the last fresh draw, <<>> before it
  sorted_sentences,     \* process_result
  count,                \* process_result: number of the candidate presented next
  checked,              \* history: rows passed to in_exclude_list in this run
  file0,                \* history: exclude_list.json when cur was drawn
  recs,                 \* history: what riksdagen.get_records returned for cur
  answers,              \* history: results of yes_no_skip_question for cur
  edits,                \* history: calls of add_usage_example for cur
  saves,                \* history: records save_to_exclude_list stored for cur
  last                  \* history: the last call of present_sentence for cur

vars == <<run, status, pc, results, sparql_results_size, language_code,
          login_instance, file, clock, earlier_choices, cur, sorted_sentences,
          count, checked, file0, recs, answers, edits, saves, last>>

NoRecords == [called |-> FALSE, none |-> TRUE, items |-> <<>>]
NoCall == [count |-> 0, answer |-> "-", sense |-> "-", ret |-> "-", resolved |-> FALSE,
           match |-> FALSE, called |-> FALSE, result |-> FALSE, saved |-> FALSE,
           n |-> 0, yn |-> "-", inputs |-> <<>>, sense_id |-> <<>>, watch |-> "-"]

data == extract_data(cur[1])

\* A run starts: configuration read, rows fetched, nothing chosen yet.
Start(f) ==
  /\ status = "running"
  /\ pc = "sampling"
  /\ sparql_results_size \in 1..MaxRows
  /\ results \in fetch_lexeme_forms(sparql_results_size)
  /\ language_code \in LanguageCodes
  /\ login_instance = FALSE
  /\ file = f
  /\ earlier_choices = <<>>
  /\ cur = <<>>
  /\ sorted_sentences = <<>>
  /\ count = 1
  /\ checked = <<>>
  /\ file0 = f
  /\ recs = NoRecords
  /\ answers = <<>>
  /\ edits = <<>>
  /\ saves = 0
  /\ last = NoCall

Init ==
  /\ run = 1
  /\ clock = 1
  /\ \E f \in InitialFiles : Start(f)

\* The script is run again after it ended; exclude_list.json is what the
\* earlier run left.
process_lexeme_data_start ==
  /\ status # "running"
  /\ run < MaxRuns
  /\ run' = run + 1
  /\ status' = "running"
  /\ pc' = "sampling"
  /\ sparql_results_size' \in 1..MaxRows
  /\ results' \in fetch_lexeme_forms(sparql_results_size')
  /\ language_code' \in LanguageCodes
  /\ login_instance' = FALSE
  /\ earlier_choices' = <<>>
  /\ cur' = <<>>
  /\ sorted_sentences' = <<>>
  /\ count' = 1
  /\ checked' = <<>>
  /\ file0' = file
  /\ recs' = NoRecords
  /\ answers' = <<>>
  /\ edits' = <<>>
  /\ saves' = 0
  /\ last' = NoCall
  /\ UNCHANGED <<file, clock>>

\* while True: all results checked, exit(0).
process_lexeme_data_exit ==
  /\ status = "running"
  /\ pc = "sampling"
  /\ Len(earlier_choices) = sparql_results_size
  /\ status' = "exit0"
  /\ cur' = <<>>
  /\ file0' = file
  /\ recs' = NoRecords
  /\ answers' = <<>>
  /\ edits' = <<>>
  /\ saves' = 0
  /\ last' = NoCall
  /\ UNCHANGED <<run, pc, results, sparql_results_size, language_code,
                 login_instance, file, clock, earlier_choices,
                 sorted_sentences, count, checked>>

\* a draw that takes every row for fresh
not_in_always(result, choices) == TRUE

\* result not in earlier_choices
not_in(result, choices) == ~InSeq(result, choices)

\* while True: random.choice(results); a row chosen before is dropped, a
\* fresh one is recorded and looked up in the exclude list.
process_lexeme_data_draw ==
  /\ status = "running"
  /\ pc = "sampling"
  /\ Len(earlier_choices) # sparql_results_size
  /\ \E i \in 1..Len(results) :
       LET result == results[i] IN
       IF not_in(result, earlier_choices)
       THEN LET r == in_exclude_list(file, extract_data(result), language_code) IN
            /\ earlier_choices' = Append(earlier_choices, result)
            /\ checked' = Append(checked, result)
            /\ cur' = <<result>>
            /\ status' = IF r = "raise" THEN "exception" ELSE status
            /\ pc' = IF r = "False" THEN "process_result" ELSE pc
            /\ file0' = file
            /\ recs' = NoRecords
            /\ answers' = <<>>
            /\ edits' = <<>>
            /\ saves' = 0
            /\ last' = NoCall
            /\ UNCHANGED <<run, results, sparql_results_size, language_code,
                           login_instance, file, clock, sorted_sentences,
                           count>>
       ELSE UNCHANGED vars

Ended(outcome) ==
  IF outcome = "exit1" THEN "exit1"
  ELSE IF outcome = "raise" THEN "exception" ELSE "running"

\* process_result from the test of sentences_and_result_data on, up to the
\* first prompt.
process_result_from(sentences_and_result_data, records) ==
  /\ recs' = [called |-> TRUE, none |-> records.none, items |-> records.items]
  /\ IF ~sentences_and_result_data.none
     THEN /\ sorted_sentences' = sorted(sentences_and_result_data.items)
          /\ count' = 1
          /\ pc' = IF Len(sentences_and_result_data.items) = 0
                   THEN "sampling" ELSE "present"
          /\ UNCHANGED <<file, clock, status, saves>>
     ELSE LET s == save_to_exclude_list(file, data, language_code, clock) IN
          /\ file' = s.file
          /\ clock' = clock + 1
          /\ saves' = IF s.outcome = "ok" THEN saves + 1 ELSE saves
          /\ status' = Ended(s.outcome)
          /\ pc' = "sampling"
          /\ UNCHANGED <<sorted_sentences, count>>
  /\ UNCHANGED <<run, results, sparql_results_size, language_code,
                 login_instance, earlier_choices, cur, checked, file0,
                 answers, edits, last>>

\* process_result as written: the candidates are what
\* get_sentences_from_apis returns.
process_result ==
  /\ status = "running"
  /\ pc = "process_result"
  /\ \E records \in get_records :
       process_result_from(get_sentences_from_apis(records), records)

\* process_result when the mapping of the corpus collaborator reaches it.
process_result_records ==
  /\ status = "running"
  /\ pc = "process_result"
  /\ \E records \in get_records :
       process_result_from([none |-> records.none, items |-> records.items],
                           records)

\* a loop that is left after every candidate
leaves_loop_always(ret) == ret \in {"True", "None", "False"}

\* if result or result is None: the form is excluded and the loop left.
leaves_loop(ret) == ret \in {"True", "None"}

\* One pass of the for loop of process_result: present_sentence for the
\* candidate, then the early return or the next candidate.
process_result_present ==
  /\ status = "running"
  /\ pc = "present"
  /\ LET sentence == sorted_sentences[count] IN
     \* an input is drawn only where the call reads it
     \E answer \in SkipAnswers :
     LET accepted == yes_no_skip_question(answer) = "True" IN
     \E n \in IF accepted THEN 0..MaxSenses ELSE {0} :
     \E yn \in IF accepted /\ n = 1 THEN YesNoAnswers ELSE {""} :
     \E inputs \in IF accepted /\ n > 1 THEN MenuInputs ELSE {<<Numeric(0)>>} :
     LET written == /\ accepted
                    /\ prompt_sense_approval(data, n, yn, inputs).sense.match
                    /\ sentence.date # "None"
     IN
     \E write \in IF written THEN BOOLEAN ELSE {FALSE} :
     \E watch \in IF written /\ write THEN WatchOutcomes ELSE {"ok"} :
     \E p \in {present_sentence(data, sentence, answer, n, yn, inputs,
                                 write, watch, login_instance)} :
     \E s \in {IF leaves_loop(p.ret)
                THEN save_to_exclude_list(file, data, language_code, clock)
                ELSE [file |-> file, outcome |-> "none"]} :
           /\ answers' = Append(answers, yes_no_skip_question(answer))
           /\ login_instance' = p.login_instance
           /\ edits' = IF p.called
                       THEN Append(edits, [form_id |-> data.form_id,
                                           lid |-> data.lid,
                                           sense_id |-> p.sense.sense_id,
                                           sentence |-> sentence.sentence,
                                           publication_date |-> sentence.date,
                                           session |-> login_instance,
                                           logged_in |-> p.logged_in,
                                           wrote |-> p.wrote,
                                           result |-> p.result])
                       ELSE edits
           /\ file' = s.file
           /\ clock' = IF leaves_loop(p.ret) THEN clock + 1 ELSE clock
           /\ saves' = IF s.outcome = "ok" THEN saves + 1 ELSE saves
           /\ last' = [count |-> count,
                       answer |-> yes_no_skip_question(answer),
                       sense |-> IF ~accepted THEN "-"
                                 ELSE IF n = 0 THEN "none"
                                 ELSE IF n = 1 THEN "yes_no" ELSE "menu",
                       ret |-> p.ret,
                       resolved |-> p.resolved, match |-> p.sense.match,
                       called |-> p.called, result |-> p.result,
                       saved |-> s.outcome = "ok",
                       n |-> n,
                       yn |-> IF accepted /\ n = 1
                              THEN IF yes_no_question(yn) THEN "True" ELSE "False"
                              ELSE "-",
                       inputs |-> IF accepted /\ n > 1 THEN inputs ELSE <<>>,
                       sense_id |-> p.sense.sense_id,
                       watch |-> IF p.watched THEN watch ELSE "-"]
           /\ count' = count + 1
           /\ status' = IF p.ret = "exit0" THEN "exit0"
                        ELSE IF p.ret = "raise" THEN "exception"
                        ELSE IF leaves_loop(p.ret) THEN Ended(s.outcome)
                        ELSE status
           /\ pc' = IF p.ret \in {"exit0", "raise"} THEN pc
                    ELSE IF leaves_loop(p.ret) THEN "sampling"
                    ELSE IF count < Len(sorted_sentences) THEN "present"
                    ELSE "sampling"
  /\ UNCHANGED <<run, results, sparql_results_size, language_code,
                 earlier_choices, cur, sorted_sentences, checked, file0, recs>>

Next ==
  \/ process_lexeme_data_start
  \/ process_lexeme_data_exit
  \/ process_lexeme_data_draw
  \/ process_result

Spec == Init /\ [][Next]_vars

\* process_result is called for one drawn form: the row is chosen, the
\* exclude list holds no record that in_exclude_list matched, a session may
\* be left from an earlier draw of the run.
CurateFiles ==
  {Absent, Json(EmptyDict)} \cup
  { save_to_exclude_list(Absent, extract_data(r), l, 0).file :
      r \in Rows, l \in LanguageCodes }

InitCurate ==
  /\ run = 1
  /\ clock = 1
  /\ status = "running"
  /\ pc = "process_result"
  /\ sparql_results_size = 1
  /\ results \in fetch_lexeme_forms(1)
  /\ language_code \in LanguageCodes
  /\ login_instance \in BOOLEAN
  /\ file \in { f \in CurateFiles :
                  in_exclude_list(f, extract_data(results[1]), language_code) = "False" }
  /\ earlier_choices = results
  /\ cur = results
  /\ sorted_sentences = <<>>
  /\ count = 1
  /\ checked = results
  /\ file0 = file
  /\ recs = NoRecords
  /\ answers = <<>>
  /\ edits = <<>>
  /\ saves = 0
  /\ last = NoCall

NextCurate ==
  \/ process_result_records
  \/ process_result_present

SpecCurate == InitCurate /\ [][NextCurate]_vars

\* ------------------------------------------------- the store on any file
\* The two operations on exclude_list.json, called one after the other on
\* whatever file is on disk: none, one without content, one that is not
\* JSON, or a JSON object with or without a record.
StoreFiles == InitialFiles \cup CurateFiles

InitStore ==
  /\ run = 1
  /\ clock = 1
  /\ status = "running"
  /\ pc = "store"
  /\ sparql_results_size = MaxRows
  /\ results \in fetch_lexeme_forms(MaxRows)
  /\ language_code \in LanguageCodes
  /\ login_instance = FALSE
  /\ file \in StoreFiles
  /\ earlier_choices = <<>>
  /\ cur = <<>>
  /\ sorted_sentences = <<>>
  /\ count = 1
  /\ checked = <<>>
  /\ file0 = file
  /\ recs = NoRecords
  /\ answers = <<>>
  /\ edits = <<>>
  /\ saves = 0
  /\ last = NoCall

\* in_exclude_list(data) for a row; an exception ends the process.
call_in_exclude_list ==
  /\ status = "running"
  /\ pc \in {"store", "in_exclude_list", "save_to_exclude_list"}
  /\ count <= MaxCalls
  /\ \E i \in 1..Len(results) :
       \E r \in {in_exclude_list(file, extract_data(results[i]), language_code)} :
         /\ cur' = <<results[i]>>
         /\ last' = [NoCall EXCEPT !.ret = r]
         /\ status' = Ended(r)
  /\ pc' = "in_exclude_list"
  /\ count' = count + 1
  /\ file0' = file
  /\ UNCHANGED <<run, results, sparql_results_size, language_code,
                 login_instance, file, clock, earlier_choices,
                 sorted_sentences, checked, recs, answers, edits, saves>>

\* save_to_exclude_list(data) for a row; exit(1) or an exception ends the
\* process.
call_save_to_exclude_list ==
  /\ status = "running"
  /\ pc \in {"store", "in_exclude_list", "save_to_exclude_list"}
  /\ count <= MaxCalls
  /\ \E i \in 1..Len(results) :
       \E s \in {save_to_exclude_list(file, extract_data(results[i]),
                                      language_code, clock)} :
         /\ cur' = <<results[i]>>
         /\ file' = s.file
         /\ last' = [NoCall EXCEPT !.ret = s.outcome, !.saved = s.outcome = "ok"]
         /\ status' = Ended(s.outcome)
         /\ saves' = IF s.outcome = "ok" THEN saves + 1 ELSE saves
  /\ pc' = "save_to_exclude_list"
  /\ count' = count + 1
  /\ clock' = clock + 1
  /\ file0' = file
  /\ UNCHANGED <<run, results, sparql_results_size, language_code,
                 login_instance, earlier_choices, sorted_sentences, checked,
                 recs, answers, edits>>

NextStore ==
  \/ call_in_exclude_list
  \/ call_save_to_exclude_list

SpecStore == InitStore /\ [][NextStore]_vars

TypeOK ==
  /\ run \in 1..MaxRuns
  /\ status \in {"running", "exit0", "exit1", "exception"}
  /\ pc \in {"sampling", "process_result", "present", "store",
            "in_exclude_list", "save_to_exclude_list"}
  /\ Len(results) \in 1..sparql_results_size
  /\ language_code \in LanguageCodes
  /\ login_instance \in BOOLEAN
  /\ file.kind \in {"absent", "empty", "corrupt", "json"}
  /\ Len(cur) <= 1
  /\ count >= 1


\* ================================================================ claims
AllChosen == \A i \in 1..Len(results) : InSeq(results[i], earlier_choices)
Returned == status = "running" /\ pc = "sampling" /\ Len(cur) = 1

\* C1: a form whose formId has a record in the exclude list under the
\* configured language at the moment it is drawn is skipped: process_result
\* is not entered for it, the corpus is not asked and add_usage_example is
\* not invoked during that draw.
C1_ExcludedFormSkipped ==
  (Len(cur) = 1 /\ Stored(file0, data.form_id, language_code))
    => (pc # "process_result" /\ ~recs.called /\ edits = <<>>)

\* C2: in_exclude_list answers true for a form exactly when the exclude
\* list holds a record for its formId under the configured language, so
\* also right after save_to_exclude_list stored one and in a later run.
C2_ExcludedIffStored ==
  \A i \in 1..Len(results) :
    file.kind \in {"absent", "json"} =>
      ( in_exclude_list(file, extract_data(results[i]), language_code) = "True"
          <=> Stored(file, extract_data(results[i]).form_id, language_code) )

\* C3: once every row of the result set has been chosen the sampling loop
\* is at its completion exit; it does not go on drawing.
C3_AllChosenThenExit ==
  (status = "running" /\ pc = "sampling" /\ AllChosen)
    => Len(earlier_choices) = sparql_results_size

\* C4: no row is passed to the exclusion check twice in a run, and every
\* row passed to it is recorded as chosen, also when the check excluded it.
C4_NoRowTwice ==
  /\ NoDup(checked)
  /\ \A i \in 1..Len(checked) : InSeq(checked[i], earlier_choices)
  /\ Len(cur) = 1 => InSeq(cur[1], earlier_choices)

\* a second row was drawn while the exclude list held a record of its
\* form under the configured language, and is recorded as chosen
C4_Witness ==
  /\ Len(checked) = 2
  /\ Len(cur) = 1
  /\ cur[1] = checked[2]
  /\ Stored(file0, data.form_id, language_code)
  /\ InSeq(cur[1], earlier_choices)

\* C5: process_result has returned for a non-excluded form for which the
\* corpus returned exactly one candidate with a publication date, and the
\* operator refused nothing: add_usage_example was invoked exactly once for
\* the form and the exclude list gained exactly one record, keyed by its
\* formId.
C5_EndToEnd ==
  ( /\ Returned
    /\ recs.called /\ ~recs.none
    /\ Len(recs.items) = 1 /\ recs.items[1].date # "None"
    /\ ~Stored(file0, data.form_id, language_code)
    /\ \A i \in 1..Len(answers) : answers[i] = "True"
    /\ Len(answers) > 0 => last.match )
    => ( /\ Len(edits) = 1
         /\ edits[1].form_id = data.form_id
         /\ saves = 1
         /\ file.kind = "json"
         /\ DOMAIN file.data = DOMAIN file0.data \cup {data.form_id} )

\* C6: a form is written to the exclude list without any prompt only when
\* the corpus returned no candidates.
C6_PromptBeforeExclusion ==
  (Len(cur) = 1 /\ recs.called /\ saves > 0 /\ answers = <<>>)
    => (recs.none \/ Len(recs.items) = 0)


AllRejected ==
  /\ Len(sorted_sentences) >= 1
  /\ Len(answers) = Len(sorted_sentences)
  /\ \A i \in 1..Len(answers) : answers[i] = "False"

NextCandidate ==
  /\ status = "running"
  /\ count = last.count + 1
  /\ pc = IF last.count < Len(sorted_sentences) THEN "present" ELSE "sampling"

\* C7: when the operator accepted a candidate and the sense resolution
\* gave no match ('no' to the single sense, or the menu cancelled), the
\* form is not written to the exclude list and the next candidate of the
\* form, if one remains, is presented.
C7_NoMatchNextCandidate ==
  (last.answer = "True" /\ last.resolved /\ ~last.match)
    => (~last.saved /\ file = file0 /\ NextCandidate)

C10_SkipOrSuccessExcluded ==
  /\ (last.answer = "None" \/ (last.called /\ last.result))
       => ( /\ last.saved
            /\ Stored(file, data.form_id, language_code)
            /\ pc = "sampling" /\ status = "running" )
  /\ Cardinality({ i \in 1..Len(edits) : edits[i].result }) <= 1


\* C11: a call of add_usage_example whose publication_date is None returns
\* failure, creates no session and sends no write request, whatever its
\* other arguments.
C11_NoDateNoEdit ==
  /\ \A i \in 1..Len(edits) :
       edits[i].publication_date = "None"
         => (~edits[i].result /\ ~edits[i].logged_in /\ ~edits[i].wrote)
  /\ (last.called /\ edits[Len(edits)].publication_date = "None")
       => login_instance = edits[Len(edits)].session

\* add_usage_example was called without a date while there was no session
C11_Witness ==
  /\ last.called
  /\ edits[Len(edits)].publication_date = "None"
  /\ ~edits[Len(edits)].session
  /\ ~login_instance


Before(items, x, y) ==
  \E i, j \in 1..Len(items) : i < j /\ items[i] = x /\ items[j] = y

SameItems(s, t) ==
  /\ Len(s) = Len(t)
  /\ \A i \in 1..Len(s) : InSeq(s[i], t)
  /\ \A i \in 1..Len(t) : InSeq(t[i], s)

Mapped == recs.called /\ ~recs.none

C13_ZeroSensesNoMatch ==
  (last.answer = "True" /\ last.sense = "none")
    => (status = "running" /\ last.ret # "exit0" /\ ~last.saved /\ file = file0)


\* the first input at the menu that int() accepts
FirstNumber(inputs) ==
  inputs[CHOOSE i \in 1..Len(inputs) :
           inputs[i].num /\ \A j \in 1..(i - 1) : ~inputs[j].num].val

\* the id of the sense the menu for lid shows under number k
SenseNumbered(lid, k) == lid \o <<"-S", ToString(k)>>

\* C14: at a menu of N >= 2 senses the inputs that are no numbers are
\* passed over; when the first number k is in 1..N exactly the sense
\* numbered k is returned, and when it is 0 the answer is 'no match'.
C14_MenuChoice ==
  last.sense = "menu" =>
    LET k == FirstNumber(last.inputs) IN
    /\ last.n >= 2
    /\ (k >= 1 /\ k <= last.n)
         => (last.match /\ last.sense_id = SenseNumbered(data.lid, k))
    /\ k = 0 => (~last.match /\ ~last.called)

\* the operator typed text, then 2, at a menu of two senses
C14_Witness ==
  /\ last.sense = "menu"
  /\ last.n = 2
  /\ Len(last.inputs) = 2
  /\ FirstNumber(last.inputs) = 2
  /\ last.sense_id = SenseNumbered(data.lid, 2)


\* C15: when exactly one sense was fetched and the operator answered 'no'
\* to it, the answer is 'no match' and add_usage_example is not called for
\* the sentence, so that sense's id is not submitted for it.
C15_SingleSenseRefused ==
  (last.sense = "yes_no" /\ last.yn = "False") =>
    /\ last.n = 1
    /\ ~last.match
    /\ ~last.called
    /\ \A i \in 1..Len(edits) :
         edits[i].sentence # sorted_sentences[last.count].sentence

\* the single sense was refused for the second candidate after an edit was
\* tried for the first
C15_Witness ==
  /\ last.sense = "yes_no" /\ last.yn = "False"
  /\ last.count = 2
  /\ Len(edits) = 1


\* the number of the sense the operator confirmed or chose in the last
\* call of present_sentence, 0 when there is none
Approved ==
  IF last.sense = "yes_no" /\ last.yn = "True" THEN 1
  ELSE IF last.sense = "menu"
            /\ FirstNumber(last.inputs) >= 1 /\ FirstNumber(last.inputs) <= last.n
       THEN FirstNumber(last.inputs)
  ELSE 0

\* C16: every call of add_usage_example is for a sentence the operator
\* accepted for the form and carries the id of the sense the operator
\* confirmed or chose for it; no call is made for a sentence that was
\* rejected or skipped.
C16_EditsApproved ==
  /\ \A i \in 1..Len(edits) :
       /\ edits[i].form_id = data.form_id
       /\ \E j \in 1..Len(answers) :
            /\ answers[j] = "True"
            /\ edits[i].sentence = sorted_sentences[j].sentence
            /\ edits[i].publication_date = sorted_sentences[j].date
  /\ Len(edits) <= Cardinality({ j \in 1..Len(answers) : answers[j] = "True" })
  /\ last.called =>
       /\ last.answer = "True"
       /\ edits[Len(edits)].sentence = sorted_sentences[last.count].sentence
       /\ Approved >= 1
       /\ edits[Len(edits)].sense_id = SenseNumbered(data.lid, Approved)
  /\ (last.count >= 1 /\ last.answer # "True") => ~last.called

\* a sentence was rejected, the next one accepted, and the second sense of
\* the menu chosen and submitted
C16_Witness ==
  /\ Len(answers) = 2
  /\ answers[1] = "False"
  /\ last.called
  /\ Approved = 2
  /\ Len(edits) = 1


\* C17: when add_usage_example succeeded and the watch-list step fails,
\* present_sentence still reports success, the form is added to the
\* exclusion store and the run continues with the next draw.
C17_WatchFailureTolerated ==
  (last.called /\ last.result /\ last.watch = "raise") =>
    /\ last.ret = "True"
    /\ last.saved
    /\ Stored(file, data.form_id, language_code)
    /\ pc = "sampling" /\ status = "running"


\* C18: a save for a form that already has a record in a well-formed,
\* non-empty file replaces the word, date and language of that record; the
\* file has one key for the form afterwards and as many keys as before.
C18_ReAddReplaces ==
  (/\ cur # <<>>
   /\ saves = 1
   /\ file0.kind = "json"
   /\ data.form_id \in DOMAIN file0.data)
    => /\ file.kind = "json"
       /\ DOMAIN file.data = DOMAIN file0.data
       /\ Cardinality(DOMAIN file.data) = Cardinality(DOMAIN file0.data)
       /\ file.data[data.form_id] =
            [word |-> data.word, date |-> clock - 1, lang |-> language_code]

\* the form had a record with another word and another language
C18_Witness ==
  /\ cur # <<>>
  /\ saves = 1
  /\ file0.kind = "json"
  /\ data.form_id \in DOMAIN file0.data
  /\ file0.data[data.form_id].word # data.word
  /\ file0.data[data.form_id].lang # language_code
  /\ file.data[data.form_id].word = data.word

\* C19: on a well-formed file every step of the workflow leaves the file
\* well-formed, removes no key and changes no record but the one of the
\* form being saved.
C19_OnlyOwnRecord ==
  [][ file.kind = "json" =>
        \/ file' = file
        \/ /\ cur # <<>>
           /\ file'.kind = "json"
           /\ DOMAIN file.data \subseteq DOMAIN file'.data
           /\ data.form_id \in DOMAIN file'.data
           /\ \A k \in DOMAIN file.data :
                k # data.form_id => file'.data[k] = file.data[k] ]_vars

\* a record was added beside the record of another form, which is as it was
C19_Witness ==
  /\ cur # <<>>
  /\ saves = 1
  /\ file0.kind = "json"
  /\ DOMAIN file0.data # {}
  /\ data.form_id \notin DOMAIN file0.data
  /\ file.kind = "json"
  /\ Cardinality(DOMAIN file.data) = 2
  /\ \A k \in DOMAIN file0.data : file.data[k] = file0.data[k]


\* C20: a lookup or a save that finds exclude_list.json without content or
\* with content that is not JSON ends the process with an error (exit(1) or
\* an exception nobody handles, both a non-zero exit code); it does not
\* return as if the list were empty.
C20_BadFileHalts ==
  (pc \in {"in_exclude_list", "save_to_exclude_list"}
     /\ file0.kind \in {"empty", "corrupt"})
    => /\ status \in {"exit1", "exception"}
       /\ last.ret \in {"exit1", "raise"}
       /\ ~last.saved

\* a lookup found a file without content
C20_Witness ==
  /\ pc = "in_exclude_list"
  /\ file0.kind = "empty"
  /\ status = "exception"


\* C21: the session is created at most once, by the first call of
\* add_usage_example that has a publication date and finds no session;
\* every later submission finds the session and uses it, and
\* add_to_watchlist is only called while the session exists.
C21_SessionOnce ==
  /\ Cardinality({ i \in 1..Len(edits) : edits[i].logged_in }) <= 1
  /\ \A i \in 1..Len(edits) :
       /\ edits[i].logged_in <=>
            (edits[i].publication_date # "None" /\ ~edits[i].session)
       /\ edits[i].logged_in =>
            \A j \in 1..(i - 1) :
              edits[j].publication_date = "None" /\ ~edits[j].session
       /\ edits[i].wrote => (edits[i].session \/ edits[i].logged_in)
       /\ \A j \in (i + 1)..Len(edits) :
            (edits[i].session \/ edits[i].publication_date # "None")
              => (edits[j].session /\ ~edits[j].logged_in)
  /\ (\E i \in 1..Len(edits) : edits[i].session \/ edits[i].wrote)
       => login_instance
  /\ last.watch # "-" => login_instance

\* the first submission created the session and failed, the second used
\* that session, succeeded and was followed by add_to_watchlist
C21_Witness ==
  /\ Len(edits) = 2
  /\ edits[1].logged_in /\ ~edits[1].result
  /\ edits[2].session /\ ~edits[2].logged_in /\ edits[2].wrote
  /\ last.watch # "-"


\* C22: a call of save_to_exclude_list that fails, because the file has no
\* content or content that is not JSON, leaves the file as it was before
\* the call.
C22_FailedSaveKeepsFile ==
  (pc = "save_to_exclude_list" /\ last.ret \in {"exit1", "raise"})
    => file = file0

====
